---- MODULE Spec2Model ----
(***************************************************************************)
(* Model of msticpy.vis.entity_graph_tools.EntityGraph: the wrapper around *)
(* one networkx graph of incidents, alerts, entities and analyst notes,    *)
(* its public operations, and the table / plot exports.                    *)
(*                                                                         *)
(* A caller constructs the graph, then issues public calls one at a time.  *)
(* Each call is one action; it records what the caller observes (the       *)
(* exception raised or the value returned, the state of the argument       *)
(* after the call, and the graph as it was before the call) in lastOp.     *)
(*                                                                         *)
(* A second specification, SpecTI, covers the record normalisation of      *)
(* msticpy.context.tiproviders.ti_provider_base.TIProvider: it draws the   *)
(* arguments of one call and applies _check_item_type or _check_ioc_type.  *)
(* A third, SpecPlot, applies the exported function plot_entitygraph to    *)
(* any small networkx graph, whatever the Type attributes of its nodes.    *)
(***************************************************************************)
EXTENDS Integers, Sequences, FiniteSets, TLC

VARIABLES alertentity_graph, pc, lastOp, nops, ti

vars == <<alertentity_graph, pc, lastOp, nops, ti>>

-----------------------------------------------------------------------------
(* Bounds of the model *)

\* number of public calls (the constructor included) one behaviour makes
MaxOps == 3
\* longest Entities list of an incident handed to the graph
MaxEnts == 2

-----------------------------------------------------------------------------
(* Python values.  Every attribute value is encoded as a string.           *)

\* the Python object None
PyNone == "<None>"
\* a key that is not in a dict (dict.get returns None for it)
NoKey == "<no key>"
\* numpy.nan, the missing marker that DataFrame.replace writes
NaN == "<nan>"
\* the four-letter string str(None)
NoneStr == "None"
\* a date string without / with a UTC offset, as str() of an entity property
NaiveStr == "2024-05-01 10:00:00"
AwareStr == "2024-05-01 10:00:00+02:00"
\* a datetime.datetime object (what datetime.now() returns), not a string
DatetimeObj == "<datetime.datetime naive>"
\* timezone-aware datetime objects, the results of the conversion
UtcTs == "<datetime 2024-05-01 10:00:00 tz=UTC>"
OffsetTs == "<datetime 2024-05-01 10:00:00 tz=+02:00>"
\* a naive datetime object as dateutil returns it for NaiveStr
NaiveTs == "<datetime 2024-05-01 10:00:00 tz=None>"

\* an int object, as the value of an attribute
IntObj == "<int 5>"

NoError == "none"

SeqsUpTo(S, n) == UNION {[1..k -> S] : k \in 0..n}

-----------------------------------------------------------------------------
(* Source objects: entities, alerts and incidents of msticpy.datamodel.    *)

Entity(name, type, tg, et) ==
    [kind |-> "Entity", name_str |-> name, Type |-> type,
     TimeGenerated |-> tg, StartTime |-> NoKey, EndTime |-> et,
     Entities |-> <<>>, Alerts |-> <<>>]

\* a host with a generation time and no end time property at all
Ent1 == Entity("e1", "host", NaiveStr, NoKey)
\* an address whose time properties are set to None
Ent2 == Entity("e2", "ipaddress", PyNone, PyNone)

EntityObjs == {Ent1, Ent2}

EntLists == SeqsUpTo(EntityObjs, MaxEnts)

Alert(name, ents) ==
    [kind |-> "Alert", name_str |-> name, Type |-> "alert",
     TimeGenerated |-> NaiveStr, StartTime |-> NaiveStr, EndTime |-> NaiveStr,
     Entities |-> ents, Alerts |-> <<>>]

AlertObjs == {Alert("A1", <<Ent1, Ent2>>), Alert("A2", <<Ent1>>), Alert("A2", <<>>)}

\* the Alerts list of an incident: no alert, one alert, or alert A1 and then an alert A2
AlertLists ==
    {<<>>} \cup {<<a>> : a \in AlertObjs}
           \cup {<<Alert("A1", <<Ent1, Ent2>>), a>> : a \in {b \in AlertObjs : b.name_str = "A2"}}

Incident(alerts, ents) ==
    [kind |-> "Incident", name_str |-> "Inc", Type |-> "incident",
     TimeGenerated |-> AwareStr, StartTime |-> AwareStr, EndTime |-> AwareStr,
     Entities |-> ents, Alerts |-> alerts]

IncidentObjs == {Incident(al, el) : al \in AlertLists, el \in EntLists}

\* the object None, and an object of a class the graph does not know (a str)
NoneObj == [kind |-> "NoneType"]
StrObj == [kind |-> "str"]

\* a row of a DataFrame: its key column, and the object that Incident(src_event=row)
\* or Alert(src_event=row) builds from it
Row(key, obj) == [key |-> key, obj |-> obj]

Rows ==
    {Row("name", Incident(<<Alert("A1", <<Ent1, Ent2>>)>>, <<Ent1, Ent2>>)),
     Row("AlertName", Alert("A2", <<Ent1>>)),
     Row("other", NoneObj)}

DataFrame(rows) == [kind |-> "DataFrame", rows |-> rows]

\* tables of no, one or two rows
DataFrames ==
    {DataFrame(<<>>)} \cup {DataFrame(<<r>>) : r \in Rows}
                      \cup {DataFrame(<<p[1], p[2]>>) : p \in Rows \X Rows}

Series(row) == [kind |-> "Series", row |-> row]

SecurityAlert(alert) == [kind |-> "SecurityAlert", alert |-> alert]

\* what a caller hands to add_incident
IncidentInputs == IncidentObjs \cup AlertObjs \cup DataFrames \cup {Ent1, NoneObj, StrObj}

\* what a caller hands to the constructor
ConstructorInputs ==
    IncidentInputs \cup EntityObjs \cup {Series(r) : r \in Rows}
                   \cup {SecurityAlert(a) : a \in AlertObjs}

\* the attached_to argument of add_note: None, one name, or a list of names
AttachNone == [t |-> "None", v |-> <<>>]
AttachStr(name) == [t |-> "str", v |-> <<name>>]
AttachList(names) == [t |-> "list", v |-> names]

\* every name a caller passes as a node name
Names == {"Inc", "A1", "A2", "e1", "e2", "n1"}

\* the names a caller puts in a list of two names to attach a note to
ListNames == {"Inc", "e1", "A2"}

NoteAttachments ==
    {AttachNone} \cup {AttachStr(n) : n \in Names}
                 \cup {AttachList(<<p[1], p[2]>>) :
                          p \in {q \in ListNames \X ListNames : q[1] # q[2]}}

\* the description argument of add_note (None is its default)
NoteDescriptions == {PyNone}

\* content hash of an entity (Entity.__hash__): equal content, equal hash
EntityHashTable == [e \in EntityObjs |-> IF e = Ent1 THEN 7001 ELSE 7002]

hash(ent) == EntityHashTable[ent]

-----------------------------------------------------------------------------
(* networkx.Graph: a dict of node attribute dicts and a set of undirected  *)
(* edges ({u, v}; a self loop is {u}).                                      *)

NodeAttrs(name, desc, type, tg, st, et, color) ==
    [Name |-> name, Description |-> desc, Type |-> type, TimeGenerated |-> tg,
     StartTime |-> st, EndTime |-> et, node_color |-> color]

NoNodes == [n \in {} |-> NodeAttrs(NoKey, NoKey, NoKey, NoKey, NoKey, NoKey, NoKey)]

EmptyGraph == [nodes |-> NoNodes, edges |-> {}]

NodeSet(g) == DOMAIN g.nodes

Edge(u, v) == {u, v}

has_edge(g, u, v) == Edge(u, v) \in g.edges

\* dict.update: keys of new replace those of old, the other keys of old stay
DictUpdate(old, new) ==
    LET pick(o, n) == IF n = NoKey THEN o ELSE n
    IN  NodeAttrs(pick(old.Name, new.Name), pick(old.Description, new.Description),
                  pick(old.Type, new.Type), pick(old.TimeGenerated, new.TimeGenerated),
                  pick(old.StartTime, new.StartTime), pick(old.EndTime, new.EndTime),
                  pick(old.node_color, new.node_color))

\* Graph.add_node(name, **attrs)
nx_add_node(g, name, attrs) ==
    [g EXCEPT !.nodes =
        [n \in NodeSet(g) \cup {name} |->
            IF n # name THEN g.nodes[n]
            ELSE IF name \in NodeSet(g) THEN DictUpdate(g.nodes[name], attrs)
            ELSE attrs]]

\* Graph.add_edge(u, v), called here only with u and v in the graph
nx_add_edge(g, u, v) == [g EXCEPT !.edges = @ \cup {Edge(u, v)}]

\* a remove_edge that drops every edge at u
nx_remove_edge_AllAtSource(g, u, v) == [g EXCEPT !.edges = {e \in @ : u \notin e}]

\* Graph.remove_edge(u, v)
nx_remove_edge(g, u, v) == [g EXCEPT !.edges = @ \ {Edge(u, v)}]

\* a remove_node that forgets the edges of the node
nx_remove_node_KeepEdges(g, name) ==
    [nodes |-> [n \in NodeSet(g) \ {name} |-> g.nodes[n]], edges |-> g.edges]

\* Graph.remove_node(n): the node and every edge incident to it
nx_remove_node(g, name) ==
    [nodes |-> [n \in NodeSet(g) \ {name} |-> g.nodes[n]],
     edges |-> {e \in g.edges : name \notin e}]

\* a compose that keeps only the second graph
nx_compose_Replace(G, H) == H

\* networkx.compose(G, H): union of nodes and edges, attributes of H win
nx_compose(G, H) ==
    [nodes |-> [n \in NodeSet(G) \cup NodeSet(H) |->
                  IF n \notin NodeSet(H) THEN G.nodes[n]
                  ELSE IF n \notin NodeSet(G) THEN H.nodes[n]
                  ELSE DictUpdate(G.nodes[n], H.nodes[n])],
     edges |-> G.edges \cup H.edges]

\* str(value) of an entity property
Str(v) == IF v = PyNone THEN NoneStr ELSE v

\* Entity.to_networkx(): the fragment holding the object's own node
to_networkx(obj) ==
    nx_add_node(EmptyGraph, obj.name_str,
        NodeAttrs(obj.name_str, obj.kind, obj.Type, Str(obj.TimeGenerated),
                  Str(obj.StartTime), Str(obj.EndTime), NoKey))

-----------------------------------------------------------------------------
(* Outcome of a call: the graph it leaves, the exception it raised (or     *)
(* NoError), the names listed in the error message, the value returned,    *)
(* and the state of the argument object after the call.                    *)

Outcome(g, err, missing, val, arg) ==
    [g |-> g, err |-> err, missing |-> missing, val |-> val, arg |-> arg]

Ok(g) == Outcome(g, NoError, <<>>, PyNone, PyNone)

\* a message that names both ends whichever is absent
MissingNames_Both(g, source, target) == <<source, target>>

\* the names of [source, target] that are not nodes of g
MissingNames(g, source, target) ==
    SelectSeq(<<source, target>>, LAMBDA name : name \notin NodeSet(g))

add_link(g, source, target) ==
    IF source \in NodeSet(g) /\ target \in NodeSet(g)
    THEN Ok(nx_add_edge(g, source, target))
    ELSE Outcome(g, "MsticpyUserError", MissingNames(g, source, target), PyNone, PyNone)

\* a remove_link that does not ask whether the edge exists
remove_link_NoEdgeCheck(g, source, target) ==
    IF source \in NodeSet(g) /\ target \in NodeSet(g)
    THEN Ok(nx_remove_edge(g, source, target))
    ELSE Outcome(g, "MsticpyUserError", <<source, target>>, PyNone, PyNone)

remove_link(g, source, target) ==
    IF /\ source \in NodeSet(g)
       /\ target \in NodeSet(g)
       /\ has_edge(g, source, target)
    THEN Ok(nx_remove_edge(g, source, target))
    ELSE Outcome(g, "MsticpyUserError", <<source, target>>, PyNone, PyNone)

\* a remove_node that deletes the node's entry and leaves its edges
remove_node_KeepEdges(g, name) ==
    IF name \in NodeSet(g)
    THEN Ok([nodes |-> [n \in NodeSet(g) \ {name} |-> g.nodes[n]], edges |-> g.edges])
    ELSE Outcome(g, "MsticpyUserError", <<name>>, PyNone, PyNone)

remove_node(g, name) ==
    IF name \in NodeSet(g)
    THEN Ok(nx_remove_node(g, name))
    ELSE Outcome(g, "MsticpyUserError", <<name>>, PyNone, PyNone)

\* True when x occurs in the list
InList(x, list) == \E i \in 1..Len(list) : list[i] = x

\* list.remove(x): drops the first element equal to x
ListRemove(list, x) ==
    LET i == CHOOSE k \in 1..Len(list) : list[k] = x /\ \A j \in 1..(k - 1) : list[j] # x
    IN  SubSeq(list, 1, i - 1) \o SubSeq(list, i + 1, Len(list))

RECURSIVE AlertEntityHashes(_, _)
\* the hashes of the entities of alerts[i..]
AlertEntityHashes(alerts, i) ==
    IF i > Len(alerts) THEN <<>>
    ELSE (IF alerts[i].Entities # <<>>
          THEN [k \in 1..Len(alerts[i].Entities) |-> hash(alerts[i].Entities[k])]
          ELSE <<>>) \o AlertEntityHashes(alerts, i + 1)

RECURSIVE DedupeLoop(_, _, _)
\* "for ent in ents": the list iterator is at position i of the list being mutated
DedupeLoop(ents, i, alert_entities) ==
    IF i > Len(ents) THEN ents
    ELSE IF InList(hash(ents[i]), alert_entities)
         THEN DedupeLoop(ListRemove(ents, ents[i]), i + 1, alert_entities)
         ELSE DedupeLoop(ents, i + 1, alert_entities)

\* returns the list object ents itself, as the loop left it
dedupe_entities(alerts, ents) == DedupeLoop(ents, 1, AlertEntityHashes(alerts, 1))

\* "if x:" for a str or None
Truthy(x) == x # PyNone /\ x # ""

\* an insertion that never links
LinkIfAttached_Never(g, attached_to, name) == Ok(g)

\* "if attached_to: self.add_link(attached_to, name)" on the composed graph g
LinkIfAttached(g, attached_to, name) ==
    IF Truthy(attached_to) THEN add_link(g, attached_to, name) ELSE Ok(g)

add_entity_node(g, ent, attached_to) ==
    LinkIfAttached(nx_compose(g, to_networkx(ent)), attached_to, ent.name_str)

RECURSIVE AddEntityNodes(_, _, _, _)
\* an exception raised for ents[i] ends the loop, otherwise it goes on
AddEntityNodesRest(r, ents, attached_to, i) ==
    IF r.err # NoError THEN r ELSE AddEntityNodes(r.g, ents, attached_to, i + 1)

\* "for ent in ents: self._add_entity_node(ent, attached_to)", from position i
AddEntityNodes(g, ents, attached_to, i) ==
    IF i > Len(ents) THEN Ok(g)
    ELSE AddEntityNodesRest(add_entity_node(g, ents[i], attached_to), ents, attached_to, i)

\* "if incident_name: self.add_link(incident_name, alert.name_str)", after the
\* loop over the alert's entities ended with outcome r
LinkAlert(r, incident_name, name) ==
    IF r.err # NoError THEN r ELSE LinkIfAttached(r.g, incident_name, name)

add_alert_node(g, alert, incident_name) ==
    LinkAlert(AddEntityNodes(nx_compose(g, to_networkx(alert)), alert.Entities,
                             alert.name_str, 1),
              incident_name, alert.name_str)

RECURSIVE AddAlertNodes(_, _, _, _)
AddAlertNodesRest(r, alerts, incident_name, i) ==
    IF r.err # NoError THEN r ELSE AddAlertNodes(r.g, alerts, incident_name, i + 1)

\* "for alert in incident.Alerts: self._add_alert_node(alert, incident.name_str)"
AddAlertNodes(g, alerts, incident_name, i) ==
    IF i > Len(alerts) THEN Ok(g)
    ELSE AddAlertNodesRest(add_alert_node(g, alerts[i], incident_name), alerts,
                           incident_name, i)

\* the loop over entities, the list object that dedupe_entities returned and that
\* incident.Entities still names
AddIncidentEntities(g, incident, entities) ==
    [AddEntityNodes(g, entities, incident.name_str, 1)
        EXCEPT !.arg = [incident EXCEPT !.Entities = entities]]

\* "if incident.Entities: ...", after the loop over the alerts ended with outcome ra
IncidentEntities(ra, incident) ==
    IF ra.err # NoError \/ incident.Entities = <<>> THEN [ra EXCEPT !.arg = incident]
    ELSE AddIncidentEntities(ra.g, incident,
                             dedupe_entities(incident.Alerts, incident.Entities))

\* the outcome carries the incident object as the call leaves it
add_incident_node(g, incident) ==
    IncidentEntities(AddAlertNodes(nx_compose(g, to_networkx(incident)), incident.Alerts,
                                   incident.name_str, 1),
                     incident)

\* a dispatch that rejects what is neither an incident nor an alert
add_incident_or_alert_node_Raises(g, incident) ==
    IF incident.kind = "Incident" THEN add_incident_node(g, incident)
    ELSE IF incident.kind = "Alert"
         THEN [add_alert_node(g, incident, PyNone) EXCEPT !.arg = incident]
    ELSE Outcome(g, "MsticpyUserError", <<>>, PyNone, incident)

add_incident_or_alert_node(g, incident) ==
    IF incident.kind = "Incident" THEN add_incident_node(g, incident)
    ELSE IF incident.kind = "Alert"
         THEN [add_alert_node(g, incident, PyNone) EXCEPT !.arg = incident]
    ELSE [Ok(g) EXCEPT !.arg = incident]

\* the value of the loop variable inc after the branches on the row's keys
RowIncident(row, inc) == IF row.key \in {"name", "AlertName"} THEN row.obj ELSE inc

RECURSIVE AddRows(_, _, _, _)
AddRowsRest(r, rows, i) ==
    IF r.err # NoError THEN r ELSE AddRows(r.g, rows, r.arg, i + 1)

\* "for row in incident.iterrows()": inc is set before the loop and kept between rows
AddRows(g, rows, inc, i) ==
    IF i > Len(rows) THEN Ok(g)
    ELSE AddRowsRest(add_incident_or_alert_node(g, RowIncident(rows[i], inc)), rows, i)

add_incident(g, incident) ==
    IF incident.kind = "DataFrame"
    THEN [AddRows(g, incident.rows, NoneObj, 1) EXCEPT !.arg = incident]
    ELSE add_incident_or_alert_node(g, incident)

add_entity(g, ent, attached_to) == [add_entity_node(g, ent, attached_to) EXCEPT !.arg = ent]

RECURSIVE AddLinks(_, _, _, _)
AddLinksRest(r, name, links, i) ==
    IF r.err # NoError THEN r ELSE AddLinks(r.g, name, links, i + 1)

\* "for link in attached_to: self.add_link(name, link)"
AddLinks(g, name, links, i) ==
    IF i > Len(links) THEN Ok(g)
    ELSE AddLinksRest(add_link(g, name, links[i]), name, links, i)

\* "if attached_to: ..." on the graph that holds the note
AttachNote(g, name, attached_to) ==
    IF attached_to.v # <<>> THEN AddLinks(g, name, attached_to.v, 1) ELSE Ok(g)

add_note(g, name, description, attached_to) ==
    AttachNote(nx_add_node(g, name,
                   NodeAttrs(name, description, "analystnote", DatetimeObj, NoKey, NoKey, NoKey)),
               name, attached_to)

\* dict.get(key): None for a key that is absent
Get(v) == IF v = NoKey THEN PyNone ELSE v

\* dateutil.parser.parse(timestr): a datetime for a date string; TypeError for an
\* argument that is no string; ParserError for a string that holds no date
parser_parse(timestr) ==
    IF timestr = DatetimeObj THEN Outcome(EmptyGraph, "TypeError", <<>>, PyNone, PyNone)
    ELSE IF timestr = NaiveStr THEN Outcome(EmptyGraph, NoError, <<>>, NaiveTs, PyNone)
    ELSE IF timestr = AwareStr THEN Outcome(EmptyGraph, NoError, <<>>, OffsetTs, PyNone)
    ELSE Outcome(EmptyGraph, "ParserError", <<>>, PyNone, PyNone)

convert_to_tz_aware_ts(date_string) ==
    IF date_string = PyNone THEN Outcome(EmptyGraph, NoError, <<>>, PyNone, PyNone)
    ELSE LET date_time == parser_parse(date_string)
         IN  IF date_time.err # NoError THEN date_time
             ELSE IF date_time.val = NaiveTs THEN [date_time EXCEPT !.val = UtcTs]
             ELSE date_time

Columns == {"Name", "Description", "Type", "TimeGenerated", "EndTime", "StartTime"}

\* the three conversions of one node, in the order the dict display evaluates them
NodeTimes(node) ==
    [TimeGenerated |-> convert_to_tz_aware_ts(Get(node.TimeGenerated)),
     EndTime |-> convert_to_tz_aware_ts(Get(node.EndTime)),
     StartTime |-> convert_to_tz_aware_ts(
                      IF node.StartTime # NoKey THEN node.StartTime
                      ELSE Get(node.TimeGenerated))]

\* the exception the row of this node raises, NoError if none
NodeRowError(node) ==
    LET t == NodeTimes(node)
    IN  IF t.TimeGenerated.err # NoError THEN t.TimeGenerated.err
        ELSE IF t.EndTime.err # NoError THEN t.EndTime.err
        ELSE t.StartTime.err

\* DataFrame.replace("None", np.nan) on one cell
ReplaceNone(cell) == IF cell = NoneStr THEN NaN ELSE cell

NodeRow(node) ==
    LET t == NodeTimes(node)
    IN  [Name |-> ReplaceNone(Get(node.Name)),
         Description |-> ReplaceNone(Get(node.Description)),
         Type |-> ReplaceNone(Get(node.Type)),
         TimeGenerated |-> ReplaceNone(t.TimeGenerated.val),
         EndTime |-> ReplaceNone(t.EndTime.val),
         StartTime |-> ReplaceNone(t.StartTime.val)]

\* a DataFrame built from a list of dicts: one row per dict, the columns are the
\* keys of the dicts (none at all for an empty list)
Table(g) ==
    [kind |-> "DataFrame",
     columns |-> IF NodeSet(g) = {} THEN {} ELSE Columns,
     rows |-> [n \in NodeSet(g) |-> NodeRow(g.nodes[n])]]

\* the exceptions the list comprehension of to_df can raise: that of the first
\* node, in the graph's order of insertion, whose row raises
ToDfErrors(g) == {NodeRowError(g.nodes[n]) : n \in NodeSet(g)} \ {NoError}

\* the outcomes of to_df; the order of the nodes is not kept by the model, so
\* each failing node may be the first one
to_df(g) ==
    IF ToDfErrors(g) = {} THEN {Outcome(g, NoError, <<>>, Table(g), PyNone)}
    ELSE {Outcome(g, e, <<>>, PyNone, PyNone) : e \in ToDfErrors(g)}

\* a missing cell (None, NaN, NaT) is falsy; a timestamp is truthy
IsNull(cell) == cell \in {PyNone, NaN}

color_map(type) ==
    IF type = "incident" THEN "red"
    ELSE IF type \in {"alert", "alerts", "securityalert"} THEN "orange"
    ELSE IF type = "analystnote" THEN "blue"
    ELSE "green"

\* str.lower() of the type names in use (they are lower case but for these)
Lower(type) ==
    IF type = "Incident" THEN "incident"
    ELSE IF type = "Alert" THEN "alert"
    ELSE IF type = "ALERTS" THEN "alerts"
    ELSE type

\* attrs["Type"].lower(): KeyError is caught, None and int have no lower()
NodeColorError(node) == IF node.Type \in {PyNone, IntObj} THEN "AttributeError" ELSE NoError

NodeColor(node) == IF node.Type = NoKey THEN "green" ELSE color_map(Lower(node.Type))

\* plot_entitygraph: colours every node of the graph it is given, then draws it
plot_entitygraph(g) ==
    IF \E n \in NodeSet(g) : NodeColorError(g.nodes[n]) # NoError
    THEN Outcome(g, "AttributeError", <<>>, PyNone, PyNone)
    ELSE Outcome([g EXCEPT !.nodes =
                     [n \in NodeSet(g) |-> [g.nodes[n] EXCEPT !.node_color = NodeColor(g.nodes[n])]]],
                 NoError, <<>>, "figure", PyNone)

\* plot_entitygraph(graph, hide=hide, timeline=False): no such parameter
plot_entitygraph_timeline_kwarg(g) == Outcome(g, "TypeError", <<>>, PyNone, PyNone)

\* the values of one column of the table
ColumnValues(table, col) ==
    {IF col = "EndTime" THEN table.rows[n].EndTime ELSE table.rows[n].TimeGenerated :
        n \in DOMAIN table.rows}

\* len(col.unique()) == 1 and not col.unique()[0]
OneFalsyValue(table, col) ==
    /\ Cardinality(ColumnValues(table, col)) = 1
    /\ \A v \in ColumnValues(table, col) : IsNull(v)

\* _plot_with_timeline, given the outcome of its call of to_df
plot_with_timeline(g, tl) ==
    IF tl.err # NoError THEN tl
    ELSE IF "EndTime" \notin tl.val.columns
         THEN Outcome(g, "KeyError", <<"EndTime">>, PyNone, PyNone)
    ELSE IF OneFalsyValue(tl.val, "EndTime") /\ OneFalsyValue(tl.val, "TimeGenerated")
         THEN plot_entitygraph_timeline_kwarg(g)
    ELSE LET graph == plot_entitygraph(g)
         IN  IF graph.err # NoError THEN graph ELSE [graph EXCEPT !.val = "column"]

\* the outcomes of plot(timeline=...)
plot(g, timeline) ==
    IF timeline THEN {plot_with_timeline(g, tl) : tl \in to_df(g)}
    ELSE {plot_entitygraph(g)}

\* EntityGraph.__init__: the graph is new and empty
init(entity) ==
    IF entity.kind \in {"Incident", "Alert"}
    THEN add_incident_or_alert_node(EmptyGraph, entity)
    ELSE IF entity.kind = "DataFrame" THEN add_incident(EmptyGraph, entity)
    ELSE IF entity.kind = "Series"
         THEN [add_incident(EmptyGraph, DataFrame(<<entity.row>>)) EXCEPT !.arg = entity]
    ELSE IF entity.kind = "Entity"
         THEN [add_entity_node(EmptyGraph, entity, PyNone) EXCEPT !.arg = entity]
    ELSE IF entity.kind = "SecurityAlert"
         THEN [add_incident_or_alert_node(EmptyGraph, entity.alert) EXCEPT !.arg = entity]
    ELSE [Ok(EmptyGraph) EXCEPT !.arg = entity]

-----------------------------------------------------------------------------
(* TIProvider: the record that _check_ioc_type returns.  A dict is a        *)
(* function from its keys to their values.                                  *)

\* the observables a caller looks up
Items == {"1.2.3.4", " 8.8.8.8 ", "example.com", "http://example.com/a?b=<x>", "not an ioc"}

\* the item_type argument: None (infer the type) or a type name
ItemTypes == {PyNone, "ipv4", "dns", "url"}

\* the query_subtype argument
QuerySubtypes == {PyNone, "passivedns"}

\* Provider.resolve_item_type: the type of an observable, "unknown" if it has none
resolve_item_type(item) ==
    IF item \in {"1.2.3.4", " 8.8.8.8 "} THEN "ipv4"
    ELSE IF item = "example.com" THEN "dns"
    ELSE IF item = "http://example.com/a?b=<x>" THEN "url"
    ELSE "unknown"

\* the sanitized representation of an observable
SanitizedValue(item) ==
    IF item = " 8.8.8.8 " THEN "8.8.8.8"
    ELSE IF item = "http://example.com/a?b=<x>" THEN "http://example.com/a?b=%3Cx%3E"
    ELSE item

\* "item_type or self.resolve_item_type(item)"
ResolvedType(item, item_type) ==
    IF Truthy(item_type) THEN item_type ELSE resolve_item_type(item)

\* Provider._check_item_type: the base record; Status is non-zero and nothing is
\* sanitized when no type was supplied and none could be inferred
Provider_check_item_type(item, item_type, query_subtype) ==
    LET unresolved == ResolvedType(item, item_type) = "unknown"
    IN  [k \in {"Item", "ItemType", "SanitizedValue", "QuerySubtype", "Status", "Details"} |->
            CASE k = "Item" -> item
              [] k = "ItemType" -> ResolvedType(item, item_type)
              [] k = "SanitizedValue" -> IF unresolved THEN "" ELSE SanitizedValue(item)
              [] k = "QuerySubtype" -> query_subtype
              [] k = "Status" -> IF unresolved THEN 2 ELSE 0
              [] OTHER -> IF unresolved THEN "IoC type unknown not supported." ELSE ""]

\* dict.pop(key) on a dict that has the key: the dict without it
DictPop(d, key) == [k \in DOMAIN d \ {key} |-> d[k]]

\* d[key] = value
DictSet(d, key, value) == [k \in DOMAIN d \cup {key} |-> IF k = key THEN value ELSE d[k]]

\* a renaming that copies the value and leaves the old key in the dict
Rename_KeepOld(d, old, new) == DictSet(d, new, d[old])

\* result[new] = result.pop(old)
Rename(d, old, new) == DictSet(DictPop(d, old), new, d[old])

\* ResultSeverity.information.name
SeverityInformation == "information"

\* the four assignments of _check_ioc_type on the record of the base class
NormalizeRecord(result) ==
    DictSet(Rename(Rename(Rename(result, "Item", "Ioc"), "ItemType", "IocType"),
                   "SanitizedValue", "SafeIoc"),
            "Severity", SeverityInformation)

check_ioc_type(ioc, ioc_type, query_subtype) ==
    NormalizeRecord(Provider_check_item_type(ioc, ioc_type, query_subtype))

\* TIProvider._check_item_type passes its arguments on to _check_ioc_type
check_item_type(item, item_type, query_subtype) ==
    check_ioc_type(item, item_type, query_subtype)

-----------------------------------------------------------------------------
(* The caller *)

NoOp ==
    [op |-> "none", arg |-> PyNone, argAfter |-> PyNone, source |-> PyNone,
     target |-> PyNone, err |-> NoError, missing |-> <<>>, val |-> PyNone,
     pre |-> EmptyGraph]

\* a public call returns or raises: the caller sees outcome r
Called(op, arg, source, target, r) ==
    /\ alertentity_graph' = r.g
    /\ lastOp' = [op |-> op, arg |-> arg, argAfter |-> r.arg, source |-> source,
                  target |-> target, err |-> r.err, missing |-> r.missing,
                  val |-> r.val, pre |-> alertentity_graph]
    /\ pc' = "returned"
    /\ nops' = nops + 1
    /\ UNCHANGED ti

CanCall == pc = "idle" /\ nops < MaxOps

\* no call of the TI provider: its arguments, and no record yet
NoLookup(item, item_type, query_subtype) ==
    [op |-> "none", item |-> item, item_type |-> item_type,
     query_subtype |-> query_subtype, result |-> <<>>]

Init ==
    /\ alertentity_graph = EmptyGraph
    /\ pc = "new"
    /\ lastOp = NoOp
    /\ nops = 0
    /\ ti = NoLookup("1.2.3.4", PyNone, PyNone)

Construct(entity) ==
    /\ pc = "new"
    /\ Called("__init__", entity, PyNone, PyNone, init(entity))

CallAddIncident(incident) ==
    /\ CanCall
    /\ Called("add_incident", incident, PyNone, PyNone,
              add_incident(alertentity_graph, incident))

CallAddEntity(ent, attached_to) ==
    /\ CanCall
    /\ Called("add_entity", ent, PyNone, attached_to,
              add_entity(alertentity_graph, ent, attached_to))

CallAddNote(name, description, attached_to) ==
    /\ CanCall
    /\ Called("add_note", attached_to, name, description,
              add_note(alertentity_graph, name, description, attached_to))

CallToDf ==
    /\ CanCall
    /\ \E r \in to_df(alertentity_graph) : Called("to_df", PyNone, PyNone, PyNone, r)

CallPlot(timeline) ==
    /\ CanCall
    /\ \E r \in plot(alertentity_graph, timeline) : Called("plot", PyNone, PyNone, timeline, r)

CallAddLink(source, target) ==
    /\ CanCall
    /\ Called("add_link", PyNone, source, target, add_link(alertentity_graph, source, target))

CallRemoveLink(source, target) ==
    /\ CanCall
    /\ Called("remove_link", PyNone, source, target,
              remove_link(alertentity_graph, source, target))

CallRemoveNode(name) ==
    /\ CanCall
    /\ Called("remove_node", PyNone, name, PyNone, remove_node(alertentity_graph, name))

\* the caller has looked at the outcome and is ready for its next call
Return ==
    /\ pc = "returned"
    /\ pc' = "idle"
    /\ lastOp' = NoOp
    /\ UNCHANGED <<alertentity_graph, nops, ti>>

Next ==
    \/ \E entity \in ConstructorInputs : Construct(entity)
    \/ \E incident \in IncidentInputs : CallAddIncident(incident)
    \/ \E ent \in EntityObjs, a \in Names \cup {PyNone} : CallAddEntity(ent, a)
    \/ \E d \in NoteDescriptions, a \in NoteAttachments : CallAddNote("n1", d, a)
    \/ \E s \in Names, t \in Names : CallAddLink(s, t)
    \/ \E s \in Names, t \in Names : CallRemoveLink(s, t)
    \/ \E n \in Names : CallRemoveNode(n)
    \/ CallToDf
    \/ \E timeline \in BOOLEAN : CallPlot(timeline)
    \/ Return

Spec == Init /\ [][Next]_vars

\* plot_entitygraph on its own: the exported function is given any networkx graph

\* the Type attribute of a node: a type name in some case, no attribute, or no string
PlotTypes ==
    {"incident", "Incident", "alert", "ALERTS", "securityalert", "analystnote", "host",
     NoKey, PyNone, IntObj}

PlotNodeNames == {"a", "b"}

\* the graphs of nodes a and b, joined if both are there
PlotGraphs ==
    {[nodes |-> [n \in N |-> NodeAttrs(n, NoKey, f[n], NoKey, NoKey, NoKey, NoKey)],
      edges |-> IF N = PlotNodeNames THEN {N} ELSE {}] :
        N \in SUBSET PlotNodeNames, f \in [PlotNodeNames -> PlotTypes]}

InitPlot ==
    /\ alertentity_graph \in PlotGraphs
    /\ pc = "idle"
    /\ lastOp = NoOp
    /\ nops = 0
    /\ ti = NoLookup("1.2.3.4", PyNone, PyNone)

CallPlotEntityGraph ==
    /\ CanCall
    /\ Called("plot_entitygraph", PyNone, PyNone, PyNone, plot_entitygraph(alertentity_graph))

NextPlot == CallPlotEntityGraph \/ Return

SpecPlot == InitPlot /\ [][NextPlot]_vars

\* the TI provider on its own: the arguments of the call are drawn at the start
InitTI ==
    /\ alertentity_graph = EmptyGraph
    /\ pc = "new"
    /\ lastOp = NoOp
    /\ nops = 0
    /\ \E item \in Items, item_type \in ItemTypes, query_subtype \in QuerySubtypes :
          ti = NoLookup(item, item_type, query_subtype)

CallCheckItemType ==
    /\ ti.op = "none"
    /\ ti' = [ti EXCEPT !.op = "_check_item_type",
                        !.result = check_item_type(ti.item, ti.item_type, ti.query_subtype)]
    /\ UNCHANGED <<alertentity_graph, pc, lastOp, nops>>

CallCheckIocType ==
    /\ ti.op = "none"
    /\ ti' = [ti EXCEPT !.op = "_check_ioc_type",
                        !.result = check_ioc_type(ti.item, ti.item_type, ti.query_subtype)]
    /\ UNCHANGED <<alertentity_graph, pc, lastOp, nops>>

NextTI == CallCheckItemType \/ CallCheckIocType

SpecTI == InitTI /\ [][NextTI]_vars

-----------------------------------------------------------------------------
(* Properties of the link and node operations *)

Pre == lastOp.pre

Absent(name) == name \notin NodeSet(Pre)

\* C1: add_link(source, target) raises MsticpyUserError whenever source or target
\* is not a node of the graph; the message lists exactly the names of
\* [source, target] that are absent (the absent one, or both); no edge is added.
C1_AddLinkMissingNode ==
    (lastOp.op = "add_link" /\ (Absent(lastOp.source) \/ Absent(lastOp.target)))
    => /\ lastOp.err = "MsticpyUserError"
       /\ Absent(lastOp.source) /\ ~Absent(lastOp.target) => lastOp.missing = <<lastOp.source>>
       /\ ~Absent(lastOp.source) /\ Absent(lastOp.target) => lastOp.missing = <<lastOp.target>>
       /\ Absent(lastOp.source) /\ Absent(lastOp.target)
            => lastOp.missing = <<lastOp.source, lastOp.target>>
       /\ alertentity_graph = Pre

\* add_link failed on a graph that has edges, with exactly one end absent
C1_Witness ==
    /\ lastOp.op = "add_link"
    /\ lastOp.err = "MsticpyUserError"
    /\ Len(lastOp.missing) = 1
    /\ Pre.edges # {}

\* C2: for nodes A and B of the graph, add_link(A, B) succeeds and the edge is
\* there; add_link(A, B) on a graph that already has the edge succeeds and leaves
\* nodes and edges exactly as they were; remove_link(A, B) on a graph that has the
\* edge succeeds and the edge is gone; remove_link(A, B) on a graph without the
\* edge (as after a first removal) raises the missing-edge MsticpyUserError.
C2_LinkRoundTrip ==
    (lastOp.op \in {"add_link", "remove_link"} /\ ~Absent(lastOp.source) /\ ~Absent(lastOp.target))
    => LET e == Edge(lastOp.source, lastOp.target)
       IN  /\ lastOp.op = "add_link"
                => /\ lastOp.err = NoError
                   /\ e \in alertentity_graph.edges
                   /\ e \in Pre.edges => alertentity_graph = Pre
           /\ lastOp.op = "remove_link" /\ e \in Pre.edges
                => /\ lastOp.err = NoError
                   /\ e \notin alertentity_graph.edges
           /\ lastOp.op = "remove_link" /\ e \notin Pre.edges
                => lastOp.err = "MsticpyUserError"

\* add_link succeeded a second time: the edge was already there
C2_Witness ==
    /\ lastOp.op = "add_link"
    /\ lastOp.err = NoError
    /\ Edge(lastOp.source, lastOp.target) \in Pre.edges
    /\ lastOp.source # lastOp.target

\* C3: remove_link(source, target) raises MsticpyUserError ("No edge exists between
\* source and target") if source is no node, target is no node, or no edge joins
\* them, and then nodes and edges are unchanged; otherwise it removes exactly that
\* edge and leaves every node and every other edge unchanged.
C3_RemoveLink ==
    lastOp.op = "remove_link"
    => IF \/ Absent(lastOp.source)
          \/ Absent(lastOp.target)
          \/ Edge(lastOp.source, lastOp.target) \notin Pre.edges
       THEN /\ lastOp.err = "MsticpyUserError"
            /\ lastOp.missing = <<lastOp.source, lastOp.target>>
            /\ alertentity_graph = Pre
       ELSE /\ lastOp.err = NoError
            /\ alertentity_graph.nodes = Pre.nodes
            /\ alertentity_graph.edges = Pre.edges \ {Edge(lastOp.source, lastOp.target)}

\* remove_link removed one edge of several
C3_Witness ==
    /\ lastOp.op = "remove_link"
    /\ lastOp.err = NoError
    /\ Cardinality(Pre.edges) >= 3
    /\ Cardinality(alertentity_graph.edges) = Cardinality(Pre.edges) - 1

\* C4: remove_node(name) raises MsticpyUserError and leaves the graph unchanged when
\* name is no node; when it is one, the node and every edge incident to it are
\* removed and all other nodes and edges are unchanged.
C4_RemoveNode ==
    lastOp.op = "remove_node"
    => IF Absent(lastOp.source)
       THEN /\ lastOp.err = "MsticpyUserError"
            /\ alertentity_graph = Pre
       ELSE /\ lastOp.err = NoError
            /\ NodeSet(alertentity_graph) = NodeSet(Pre) \ {lastOp.source}
            /\ \A n \in NodeSet(alertentity_graph) : alertentity_graph.nodes[n] = Pre.nodes[n]
            /\ \A e \in alertentity_graph.edges : lastOp.source \notin e
            /\ \A e \in Pre.edges :
                  lastOp.source \notin e <=> e \in alertentity_graph.edges

\* remove_node removed a node that had edges, and other edges stayed
C4_Witness ==
    /\ lastOp.op = "remove_node"
    /\ lastOp.err = NoError
    /\ \E e \in Pre.edges : lastOp.source \in e
    /\ alertentity_graph.edges # {}

-----------------------------------------------------------------------------
(* Properties of the insertion of incidents *)

\* the call inserted an Incident object (constructor or add_incident)
InsertedIncident ==
    /\ lastOp.op \in {"__init__", "add_incident"}
    /\ lastOp.arg.kind = "Incident"

\* alert holds an entity of the same content hash as ent
AlertHolds(alert, ent) ==
    \E k \in 1..Len(alert.Entities) : hash(alert.Entities[k]) = hash(ent)

\* C5: after an incident is inserted, each of its direct entities whose content
\* hash is that of an entity of one of its alerts is one node, linked to the
\* alerts that hold it and not linked to the incident by the insertion; the direct
\* entities that no alert holds are linked to the incident.
C5_DirectEntitiesDeduplicated ==
    InsertedIncident
    => \A k \in 1..Len(lastOp.arg.Entities) :
          LET incident == lastOp.arg
              ent == incident.Entities[k]
              holders == {i \in 1..Len(incident.Alerts) : AlertHolds(incident.Alerts[i], ent)}
              direct == Edge(incident.name_str, ent.name_str)
          IN  /\ ent.name_str \in NodeSet(alertentity_graph)
              /\ \A i \in holders :
                    has_edge(alertentity_graph, incident.Alerts[i].name_str, ent.name_str)
              /\ holders # {} => (direct \in alertentity_graph.edges => direct \in Pre.edges)
              /\ holders = {} => direct \in alertentity_graph.edges

\* C6: inserting an incident, alert or entity (constructor, add_incident,
\* add_entity) leaves the source object as it was; the Entities and Alerts lists
\* of an incident hold the same elements in the same order after the call.
C6_SourceNotMutated ==
    lastOp.op \in {"__init__", "add_incident", "add_entity"} => lastOp.argAfter = lastOp.arg

\* an input of no known variant, or a table with a row of no known key
Unrecognized(x) ==
    x.kind \notin {"Incident", "Alert", "DataFrame", "Series", "Entity", "SecurityAlert"}

HasOtherRow(x) ==
    \/ x.kind = "DataFrame" /\ \E i \in 1..Len(x.rows) : x.rows[i].key = "other"
    \/ x.kind = "Series" /\ x.row.key = "other"

GivenUnrecognized ==
    /\ lastOp.op \in {"__init__", "add_incident"}
    /\ Unrecognized(lastOp.arg) \/ HasOtherRow(lastOp.arg)

KnownRows(x) ==
    IF x.kind = "DataFrame" THEN SelectSeq(x.rows, LAMBDA r : r.key # "other") ELSE <<>>

-----------------------------------------------------------------------------
(* Properties of the exports *)

TimeKeys(node) == {node.TimeGenerated, node.StartTime, node.EndTime}

\* C8: on every graph the public operations build, the graph with a note node
\* (whose TimeGenerated is a datetime object) included, to_df raises nothing and
\* returns one row per node with the six columns.  Graphs that hold the
\* placeholder string are left to C9.
C8_ToDfTotal ==
    (lastOp.op = "to_df" /\ \A n \in NodeSet(Pre) : NoneStr \notin TimeKeys(Pre.nodes[n]))
    => /\ lastOp.err = NoError
       /\ DOMAIN lastOp.val.rows = NodeSet(Pre)
       /\ NodeSet(Pre) # {} => lastOp.val.columns = Columns

\* C9: in the table of to_df, a node whose EndTime is unset (no such attribute, or
\* the placeholder string "None") has a missing marker in its EndTime cell, never
\* the placeholder; a node without StartTime has the conversion of its
\* TimeGenerated in its StartTime cell.  Graphs with a note node are left to C8.
C9_UnsetTimes ==
    (lastOp.op = "to_df" /\ \A n \in NodeSet(Pre) : DatetimeObj \notin TimeKeys(Pre.nodes[n]))
    => \A n \in NodeSet(Pre) :
          /\ Pre.nodes[n].EndTime \in {NoKey, NoneStr}
                => /\ lastOp.err = NoError
                   /\ IsNull(lastOp.val.rows[n].EndTime)
                   /\ lastOp.val.rows[n].EndTime # NoneStr
          /\ Pre.nodes[n].StartTime = NoKey
                => /\ lastOp.err = NoError
                   /\ lastOp.val.rows[n].StartTime = lastOp.val.rows[n].TimeGenerated

\* C10: plot() of a graph without nodes raises nothing and returns a plot, with and
\* without the timeline option.
C10_PlotEmptyGraph ==
    (lastOp.op = "plot" /\ NodeSet(Pre) = {})
    => /\ lastOp.err = NoError
       /\ lastOp.val \in {"figure", "column"}

-----------------------------------------------------------------------------
(* Properties of the graph as a whole *)

\* the alert is a node, and each of its entities is a node linked to it
AlertLinked(g, alert) ==
    /\ alert.name_str \in NodeSet(g)
    /\ \A k \in 1..Len(alert.Entities) :
          /\ alert.Entities[k].name_str \in NodeSet(g)
          /\ has_edge(g, alert.name_str, alert.Entities[k].name_str)

\* the incident is a node, and each of its alerts is linked to it and to its entities
IncidentLinked(g, incident) ==
    /\ incident.name_str \in NodeSet(g)
    /\ \A i \in 1..Len(incident.Alerts) :
          /\ AlertLinked(g, incident.Alerts[i])
          /\ has_edge(g, incident.name_str, incident.Alerts[i].name_str)

\* the incidents and alerts that a call of the constructor or of add_incident inserts
InsertedObjs(x) ==
    IF x.kind \in {"Incident", "Alert"} THEN {x}
    ELSE IF x.kind = "SecurityAlert" THEN {x.alert}
    ELSE IF x.kind = "Series" THEN {x.row.obj}
    ELSE IF x.kind = "DataFrame" THEN {x.rows[i].obj : i \in 1..Len(x.rows)}
    ELSE {}

\* C12: after an alert is inserted the graph has a node for the alert and every
\* entity of the alert is a node linked to the alert node; after an incident is
\* inserted the graph has a node for the incident and every alert of the incident
\* is a node linked to the incident node, with each alert's entities linked to it.
C12_InsertionLinks ==
    lastOp.op \in {"__init__", "add_incident"}
    => \A obj \in InsertedObjs(lastOp.arg) :
          /\ obj.kind = "Alert" => lastOp.err = NoError /\ AlertLinked(alertentity_graph, obj)
          /\ obj.kind = "Incident"
                => lastOp.err = NoError /\ IncidentLinked(alertentity_graph, obj)

\* add_incident put an incident of two alerts, the first with entities, into a
\* graph that had nodes
C12_Witness ==
    /\ lastOp.op = "add_incident"
    /\ lastOp.arg.kind = "Incident"
    /\ Len(lastOp.arg.Alerts) = 2
    /\ lastOp.arg.Alerts[1].Entities # <<>>
    /\ NodeSet(Pre) # {}
    /\ NodeSet(alertentity_graph) # NodeSet(Pre)

\* C13: no call other than remove_node and remove_link (the constructor,
\* add_incident, add_entity, add_note, add_link, to_df, plot) removes a node or an
\* edge that the graph had before the call, whether the call returns or raises.
C13_MonotonicGrowth ==
    lastOp.op \in {"__init__", "add_incident", "add_entity", "add_note", "add_link",
                   "to_df", "plot"}
    => /\ NodeSet(Pre) \subseteq NodeSet(alertentity_graph)
       /\ Pre.edges \subseteq alertentity_graph.edges

\* add_entity raised on a graph that had edges, after it had put its node in
C13_Witness ==
    /\ lastOp.op = "add_entity"
    /\ lastOp.err # NoError
    /\ Pre.edges # {}
    /\ NodeSet(alertentity_graph) # NodeSet(Pre)

\* C14: in every reachable state each edge joins names that are both nodes of the
\* graph, and each name identifies one node: the nodes are keyed by name, and a
\* note or an entity added under a name that is a node already adds no node.
C14_EdgesJoinNodes ==
    /\ \A e \in alertentity_graph.edges :
          /\ e \subseteq NodeSet(alertentity_graph)
          /\ Cardinality(e) \in {1, 2}
    /\ (lastOp.op = "add_note" /\ ~Absent(lastOp.source))
          => NodeSet(alertentity_graph) = NodeSet(Pre)
    /\ (lastOp.op = "add_entity" /\ ~Absent(lastOp.arg.name_str))
          => NodeSet(alertentity_graph) = NodeSet(Pre)

\* remove_node removed a node that had edges, from a graph that keeps other edges
C14_Witness ==
    /\ lastOp.op = "remove_node"
    /\ lastOp.err = NoError
    /\ Cardinality({e \in Pre.edges : lastOp.source \in e}) >= 2
    /\ Cardinality(alertentity_graph.edges) >= 2

\* the colour the table gives to a Type attribute: green for what is no string
ClaimedColor(type) ==
    IF type \in {NoKey, PyNone, IntObj} THEN "green" ELSE color_map(Lower(type))

\* C15: plot_entitygraph raises nothing and gives every node of the graph the
\* node_color of its lower-cased Type: red for "incident", orange for "alert",
\* "alerts" and "securityalert", blue for "analystnote", green for every other
\* Type, for a node without Type and for a Type that is no string.
C15_NodeColors ==
    lastOp.op = "plot_entitygraph"
    => /\ lastOp.err = NoError
       /\ NodeSet(alertentity_graph) = NodeSet(Pre)
       /\ \A n \in NodeSet(Pre) :
             alertentity_graph.nodes[n].node_color = ClaimedColor(Pre.nodes[n].Type)

\* C16: when add_note or add_entity raises MsticpyUserError for a name in
\* attached_to that is no node, the nodes and edges of the graph are those from
\* before the call: no note or entity node and no link is left behind.
C16_ErrorAtomicity ==
    (lastOp.op \in {"add_note", "add_entity"} /\ lastOp.err = "MsticpyUserError")
    => /\ NodeSet(alertentity_graph) = NodeSet(Pre)
       /\ alertentity_graph.edges = Pre.edges

-----------------------------------------------------------------------------
(* Properties of the TI provider's record *)

\* the record of the base class for the arguments of the call
BaseRecord == Provider_check_item_type(ti.item, ti.item_type, ti.query_subtype)

\* C11: the record that _check_item_type / _check_ioc_type returns has the keys Ioc,
\* IocType and SafeIoc with the base record's Item, ItemType and SanitizedValue
\* values, has no key Item, ItemType or SanitizedValue, has Severity "information",
\* and carries every other field of the base record unchanged; its Status is
\* non-zero when no type was supplied and none could be inferred.
C11_NormalizedRecord ==
    ti.op # "none"
    => /\ DOMAIN ti.result =
             (DOMAIN BaseRecord \ {"Item", "ItemType", "SanitizedValue"})
                \cup {"Ioc", "IocType", "SafeIoc", "Severity"}
       /\ ti.result["Ioc"] = BaseRecord["Item"]
       /\ ti.result["IocType"] = BaseRecord["ItemType"]
       /\ ti.result["SafeIoc"] = BaseRecord["SanitizedValue"]
       /\ ti.result["Severity"] = "information"
       /\ \A k \in DOMAIN BaseRecord \ {"Item", "ItemType", "SanitizedValue", "Severity"} :
             ti.result[k] = BaseRecord[k]
       /\ (ti.item_type = PyNone /\ resolve_item_type(ti.item) = "unknown")
             => ti.result["Status"] # 0

\* _check_item_type returned the record of an observable whose type was neither
\* supplied nor inferred
C11_Witness ==
    /\ ti.op = "_check_item_type"
    /\ ti.item_type = PyNone
    /\ ti.result["Ioc"] = "not an ioc"
    /\ ti.result["IocType"] = "unknown"
    /\ ti.result["Status"] # 0

====
